---- MODULE Spec2Model ----
(***************************************************************************)
(* Model of src/motorESCAlpha.py: class Motor, its poll loop run(), the    *)
(* per-cycle callback getDataCallback() and the helpers it calls.          *)
(*                                                                         *)
(* Time.  One tick is one poll period (REQUEST_DATA_EVERY_N_SECONDS).      *)
(* Every timestamp field of the object is only ever read in an expression  *)
(* time.time() - field, so the model keeps that difference ("since...")    *)
(* instead of the timestamp, saturated at the first value from which the   *)
(* comparison made with it no longer changes.  Assigning time.time() to    *)
(* the field is setting the difference to 0.                               *)
(*                                                                         *)
(* Wire values.  A field of a received line is a pair <<kind, n>>:         *)
(*   <<"i", n>>   the decimal text of the integer n                        *)
(*   <<"h", n>>   the decimal text of n/2, n odd (0.5 is <<"h", 1>>)       *)
(*   <<"nan", 0>> the text "nan" (float() accepts it, int() raises)        *)
(*   <<"txt", 0>> a text float() rejects                                   *)
(* A stored metric is the float parsed from the field, kept as that pair;  *)
(* None is <<"none", 0>>.                                                  *)
(***************************************************************************)
EXTENDS Integers, Sequences, FiniteSets, TLC

\* ---------------------------------------------------------------- bounds
\* The number of motors (6 in the source) and the deadlines, in ticks of
\* one poll period (0.1 s).  The source's values are 5 ticks (0.5 s) for
\* maxTimeBetweenTelemetry and for the sleep of the connect loop, 20 ticks
\* (2 s) for serialTimeout and 50 ticks (5.0 s) for maxTimeNoResponseSerial;
\* the model takes them smaller, none below the poll period.
totalNumMotors == 2
maxTimeBetweenTelemetry == 2
serialTimeout == 2
maxTimeNoResponseSerial == 3
connectRetrySleep == 2

\* bytesToSendToTeensy, str.encode('0' * totalNumMotors): one character
\* '0' per motor.
bytesToSendToTeensy == [k \in 1 .. totalNumMotors |-> "0"]

\* ------------------------------------------------------ program constants
REQUEST_DATA_EVERY_N_SECONDS == 1
numOfDataReceived == 11
MAX_RPM_THRESHOLD == 10000
MIN_RPM_THRESHOLD == 350

maxTimeNoHeartbeat == maxTimeNoResponseSerial
maxTimeNoUpdate == maxTimeNoHeartbeat

Motors == 0 .. (totalNumMotors - 1)

\* ------------------------------------------------------------ wire values
NoneV == <<"none", 0>>
I(n) == <<"i", n>>
H(n) == <<"h", n>>
NaN == <<"nan", 0>>
Txt == <<"txt", 0>>

\* IsFloat with the fields taken as they come, text included.
IsFloat_AcceptsText(f) == TRUE

\* float(s) succeeds
IsFloat(f) == f[1] \in {"i", "h", "nan"}

\* int(x) of a float x succeeds (int(nan) raises ValueError)
IntOK(f) == f[1] \in {"i", "h"}

\* int(x): truncation toward zero
IntOf(f) ==
    IF f[1] = "i" THEN f[2]
    ELSE IF f[2] >= 0 THEN f[2] \div 2 ELSE -((-f[2]) \div 2)

\* x < m and x > m for a float x and an integer m (false for nan)
FloatLT(f, m) ==
    CASE f[1] = "i" -> f[2] < m
      [] f[1] = "h" -> f[2] < 2 * m
      [] OTHER -> FALSE

FloatGT(f, m) ==
    CASE f[1] = "i" -> f[2] > m
      [] f[1] = "h" -> f[2] > 2 * m
      [] OTHER -> FALSE

\* ------------------------------------------------------------- the inputs
\* The lines the transport may deliver.  Frame(...) is an 11-field line in
\* wire order: motorNum, isMotorUpdated, timeMotor, throttleInPercent,
\* throttleOutPercent, motorRPM, voltage, totalCurrent, phaseCurrent,
\* mosfetTemp, capacitorTemp.
Frame(idx, upd, rpm, v) == <<idx, upd, v, v, v, rpm, v, v, v, v, v>>

\* The lines the transport delivers in Spec: for every motor a frame within
\* the RPM limits, one below them, and one "not updated"; a vendor status
\* line (one field); a frame for a motor that does not exist; a frame with
\* a field that is not a number; a frame whose updated field is nan.
Lines ==
    { Frame(I(i), I(1), I(350), I(1)) : i \in Motors }
    \cup { Frame(I(i), I(1), I(349), I(1)) : i \in Motors }
    \cup { Frame(I(i), I(0), I(349), I(1)) : i \in Motors }
    \cup { <<Txt>>,
           Frame(I(totalNumMotors), I(1), I(350), I(1)),
           Frame(I(0), I(1), Txt, I(1)),
           Frame(I(0), NaN, I(350), I(1)) }

\* ------------------------------------------------------------------ state
VARIABLES
    pc,                     \* position in run(): connect, poll, readline, exited
    ser,                    \* self.ser is not None
    dataStringList,
    timeList,
    isMotorUpdatedList,
    throttleInPercentList,
    throttleOutPercentList,
    motorRPMList,
    voltageList,
    totalCurrentList,
    phaseCurrentList,
    mosfetTempList,
    capacitorTempList,
    motorStatusList,
    dataToAirCraft,         \* "empty" ({}), "full" (the dict) or "none" (None)
    sinceSerialOK,          \* time.time() - self.lastTimeSerialOK
    sinceHeartbeat,         \* time.time() - self.lasTimeHeartbeat
    sinceFullTelemetry,     \* time.time() - self.lastTimeSendFullTelemetry
    sinceMotorUpdate,       \* time.time() - self.lastTimeMotorUpdate[i]
    timePassed,             \* time.time() - lastTimeGetCallback
    emitted,                \* what this iteration has printed so far, in order
    cycleResult,            \* how far this iteration's getDataCallback went
    applied,                \* motors for which updateData has returned True
    sinceFullEmitted,       \* time since the last full object was printed, -1: never
    repeated,               \* the last direct call of updateData applied the
                            \* line that the call before it had applied
    serialCalls             \* the calls this iteration has made on self.ser, in
                            \* order, each <<method, argument>>

vars ==
    << pc, ser, dataStringList, timeList, isMotorUpdatedList,
       throttleInPercentList, throttleOutPercentList, motorRPMList,
       voltageList, totalCurrentList, phaseCurrentList, mosfetTempList,
       capacitorTempList, motorStatusList, dataToAirCraft, sinceSerialOK,
       sinceHeartbeat, sinceFullTelemetry, sinceMotorUpdate, timePassed,
       emitted, cycleResult, applied, sinceFullEmitted, repeated,
       serialCalls >>

\* The object (and the locals of run()) as one record, so that the methods
\* can be written as functions from object to object and composed in the
\* order the code calls them.
Self ==
    [ dataStringList |-> dataStringList,
      timeList |-> timeList,
      isMotorUpdatedList |-> isMotorUpdatedList,
      throttleInPercentList |-> throttleInPercentList,
      throttleOutPercentList |-> throttleOutPercentList,
      motorRPMList |-> motorRPMList,
      voltageList |-> voltageList,
      totalCurrentList |-> totalCurrentList,
      phaseCurrentList |-> phaseCurrentList,
      mosfetTempList |-> mosfetTempList,
      capacitorTempList |-> capacitorTempList,
      motorStatusList |-> motorStatusList,
      dataToAirCraft |-> dataToAirCraft,
      sinceSerialOK |-> sinceSerialOK,
      sinceHeartbeat |-> sinceHeartbeat,
      sinceFullTelemetry |-> sinceFullTelemetry,
      sinceMotorUpdate |-> sinceMotorUpdate,
      timePassed |-> timePassed,
      emitted |-> emitted,
      cycleResult |-> cycleResult,
      applied |-> applied,
      sinceFullEmitted |-> sinceFullEmitted,
      repeated |-> repeated,
      serialCalls |-> serialCalls ]

\* The next state's object is s.
Becomes(s) ==
    /\ dataStringList' = s.dataStringList
    /\ timeList' = s.timeList
    /\ isMotorUpdatedList' = s.isMotorUpdatedList
    /\ throttleInPercentList' = s.throttleInPercentList
    /\ throttleOutPercentList' = s.throttleOutPercentList
    /\ motorRPMList' = s.motorRPMList
    /\ voltageList' = s.voltageList
    /\ totalCurrentList' = s.totalCurrentList
    /\ phaseCurrentList' = s.phaseCurrentList
    /\ mosfetTempList' = s.mosfetTempList
    /\ capacitorTempList' = s.capacitorTempList
    /\ motorStatusList' = s.motorStatusList
    /\ dataToAirCraft' = s.dataToAirCraft
    /\ sinceSerialOK' = s.sinceSerialOK
    /\ sinceHeartbeat' = s.sinceHeartbeat
    /\ sinceFullTelemetry' = s.sinceFullTelemetry
    /\ sinceMotorUpdate' = s.sinceMotorUpdate
    /\ timePassed' = s.timePassed
    /\ emitted' = s.emitted
    /\ cycleResult' = s.cycleResult
    /\ applied' = s.applied
    /\ sinceFullEmitted' = s.sinceFullEmitted
    /\ repeated' = s.repeated
    /\ serialCalls' = s.serialCalls

\* ------------------------------------------------------------------- time
Sat(x, d, cap) == IF x + d > cap THEN cap ELSE x + d

TimePassedCap ==
    1 + (IF serialTimeout > REQUEST_DATA_EVERY_N_SECONDS
         THEN serialTimeout ELSE REQUEST_DATA_EVERY_N_SECONDS)

\* d ticks go by: every time.time() - field grows by d.
Elapse(s, d) ==
    [ s EXCEPT
        !.sinceSerialOK = Sat(@, d, maxTimeNoResponseSerial),
        !.sinceHeartbeat = Sat(@, d, maxTimeNoHeartbeat + 1),
        !.sinceFullTelemetry = Sat(@, d, maxTimeBetweenTelemetry),
        !.sinceMotorUpdate = [m \in Motors |-> Sat(@[m], d, maxTimeNoUpdate)],
        !.timePassed = Sat(@, d, TimePassedCap),
        !.sinceFullEmitted = IF @ = -1 THEN -1 ELSE Sat(@, d, maxTimeBetweenTelemetry) ]

\* sendToAircraft without the update of lastTimeSendFullTelemetry.
sendToAircraft_ClockNotSet(s, data) ==
    IF data = "none"
    THEN [s EXCEPT !.emitted = Append(@, "status")]
    ELSE [s EXCEPT !.emitted = Append(@, data),
                   !.sinceFullEmitted = IF data = "full" THEN 0 ELSE @]

\* ---------------------------------------------------------------- methods
\* sendToAircraft(dataToAirCraft): data is "none" (None: the status-only
\* batch), "full" (the telemetry dict) or "error" (the dict that
\* sendCommunicationFailed passes).
sendToAircraft(s, data) ==
    IF data = "none"
    THEN [s EXCEPT !.emitted = Append(@, "status")]
    ELSE [s EXCEPT !.emitted = Append(@, data),
                   !.sinceFullTelemetry = 0,
                   !.sinceFullEmitted = IF data = "full" THEN 0 ELSE @]

sendCommunicationFailed(s) == sendToAircraft(s, "error")

\* Limits that exclude their end points.
isWithinMaxMinLimits_Exclusive(value, min, max) ==
    IF FloatLT(value, min) \/ FloatGT(value, max) \/ value = I(min) \/ value = I(max)
    THEN FALSE ELSE TRUE

isWithinMaxMinLimits(value, min, max) ==
    IF FloatLT(value, min) \/ FloatGT(value, max) THEN FALSE ELSE TRUE

\* isMotorRPMOK with the limits applied whether or not the data is updated.
isMotorRPMOK_IgnoresFlag(s, motorNum) ==
    isWithinMaxMinLimits(s.motorRPMList[motorNum], MIN_RPM_THRESHOLD, MAX_RPM_THRESHOLD)

isMotorRPMOK(s, motorNum) ==
    IF s.isMotorUpdatedList[motorNum]
    THEN isWithinMaxMinLimits(s.motorRPMList[motorNum], MIN_RPM_THRESHOLD, MAX_RPM_THRESHOLD)
    ELSE TRUE

isMotorOK(s, motorNum) ==
    IF motorNum < 0 \/ motorNum >= totalNumMotors
    THEN FALSE
    ELSE isMotorRPMOK(s, motorNum)

\* isMotorsUpdateOK: the first motor found stale sends the failure message
\* and ends the loop.  The value returned is not used by the caller.
StaleMotors(s) ==
    { m \in Motors :
        s.isMotorUpdatedList[m] = FALSE /\ s.sinceMotorUpdate[m] >= maxTimeNoUpdate }

\* A loop that looks at the first motor only.
isMotorsUpdateOK_FirstMotorOnly(s) ==
    IF 0 \in StaleMotors(s) THEN sendCommunicationFailed(s) ELSE s

isMotorsUpdateOK(s) ==
    IF StaleMotors(s) # {} THEN sendCommunicationFailed(s) ELSE s

\* A status that is computed only for a motor whose frame says "updated".
statusOf_OnlyWhenUpdated(s, motorNum) ==
    IF s.isMotorUpdatedList[motorNum]
    THEN (IF isMotorOK(s, motorNum) THEN "normal" ELSE "down")
    ELSE s.motorStatusList[motorNum]

\* The status updateData stores, from the values it has just stored.
statusOf(s, motorNum) == IF isMotorOK(s, motorNum) THEN "normal" ELSE "down"

\* A range test without its lower limit.
indexInRange_NoLowerLimit(motorNum) == motorNum < totalNumMotors

\* The test updateData makes before it writes.
indexInRange(motorNum) == motorNum >= 0 /\ motorNum < totalNumMotors

\* PyIndex with the list slot taken one place too far.
PyIndex_NextSlot(k) == (k + 1) % totalNumMotors

\* The element a Python list of totalNumMotors elements takes for index k
\* (a negative index counts from the end).
PyIndex(k) == IF k < 0 THEN k + totalNumMotors ELSE k

\* updateData with the status computed before the new values are stored.
updateData_StatusFirst(s) ==
    LET d == s.dataStringList
        motorNum == IntOf(d[1])
        at == PyIndex(motorNum)
        upd == IntOf(d[2]) # 0
        s1 == [s EXCEPT !.timeList[at] = d[3]]
        s2 == [s1 EXCEPT
                 !.isMotorUpdatedList[at] = upd,
                 !.throttleInPercentList[at] = d[4],
                 !.throttleOutPercentList[at] = d[5],
                 !.motorRPMList[at] = d[6],
                 !.voltageList[at] = d[7],
                 !.totalCurrentList[at] = d[8],
                 !.phaseCurrentList[at] = d[9],
                 !.mosfetTempList[at] = d[10],
                 !.capacitorTempList[at] = d[11]]
        s3 == [s2 EXCEPT !.motorStatusList[at] = statusOf(s, motorNum)]
        s4 == IF s3.isMotorUpdatedList[at] = TRUE
              THEN [s3 EXCEPT !.sinceMotorUpdate[at] = 0]
              ELSE s3
    IN  IF \E k \in 1 .. Len(d) : ~IsFloat(d[k])
        THEN [st |-> s, ret |-> "raise"]
        ELSE IF ~IntOK(d[1])
        THEN [st |-> s, ret |-> "raise"]
        ELSE IF indexInRange(motorNum)
        THEN IF at \notin Motors
             THEN [st |-> s, ret |-> "raise"]
             ELSE IF ~IntOK(d[2])
             THEN [st |-> s1, ret |-> "raise"]
             ELSE [st |-> [s4 EXCEPT !.applied = @ \cup {at}], ret |-> "True"]
        ELSE [st |-> s, ret |-> "False"]

\* updateData: [st |-> the object afterwards, ret |-> "True", "False" or
\* "raise" (float() or int() raised)].
updateData(s) ==
    LET d == s.dataStringList
        motorNum == IntOf(d[1])
        at == PyIndex(motorNum)
        upd == IntOf(d[2]) # 0
        s1 == [s EXCEPT !.timeList[at] = d[3]]
        s2 == [s1 EXCEPT
                 !.isMotorUpdatedList[at] = upd,
                 !.throttleInPercentList[at] = d[4],
                 !.throttleOutPercentList[at] = d[5],
                 !.motorRPMList[at] = d[6],
                 !.voltageList[at] = d[7],
                 !.totalCurrentList[at] = d[8],
                 !.phaseCurrentList[at] = d[9],
                 !.mosfetTempList[at] = d[10],
                 !.capacitorTempList[at] = d[11]]
        s3 == [s2 EXCEPT !.motorStatusList[at] = statusOf(s2, motorNum)]
        s4 == IF s3.isMotorUpdatedList[at] = TRUE
              THEN [s3 EXCEPT !.sinceMotorUpdate[at] = 0]
              ELSE s3
    IN  IF \E k \in 1 .. Len(d) : ~IsFloat(d[k])
        THEN [st |-> s, ret |-> "raise"]
        ELSE IF ~IntOK(d[1])
        THEN [st |-> s, ret |-> "raise"]
        ELSE IF indexInRange(motorNum)
        THEN IF at \notin Motors
             THEN [st |-> s, ret |-> "raise"]
             ELSE IF ~IntOK(d[2])
             THEN [st |-> s1, ret |-> "raise"]
             ELSE [st |-> [s4 EXCEPT !.applied = @ \cup {at}], ret |-> "True"]
        ELSE [st |-> s, ret |-> "False"]

allMotorsReported(s) == \A m \in Motors : s.motorStatusList[m] # "None"

\* Sending without the test that every motor has a status.
prepareAndSendDataToAirCraft_NoGuard(s) ==
    LET data == IF s.sinceFullTelemetry >= maxTimeBetweenTelemetry
                THEN "full" ELSE "none"
    IN  sendToAircraft([s EXCEPT !.dataToAirCraft = data], data)

prepareAndSendDataToAirCraft(s) ==
    LET data == IF s.sinceFullTelemetry >= maxTimeBetweenTelemetry
                THEN "full" ELSE "none"
        s1 == [s EXCEPT !.dataToAirCraft = data]
    IN  IF allMotorsReported(s1)
        THEN sendToAircraft(s1, data)
        ELSE s1

\* The except branch of getDataCallback.
onException(s) ==
    IF s.sinceHeartbeat > maxTimeNoHeartbeat
    THEN sendCommunicationFailed(s)
    ELSE s

\* readDataFromTeensy from the point where readline() has returned line:
\* [st, ret].
readDataFromTeensy(s, line) ==
    LET s1 == [s EXCEPT !.dataStringList = line]
    IN  IF Len(line) # numOfDataReceived
        THEN [st |-> s1, ret |-> FALSE]
        ELSE [st |-> [s1 EXCEPT !.sinceHeartbeat = 0], ret |-> TRUE]

\* getDataCallback from the point where readline() has returned line.
getDataCallback(s, line) ==
    LET r == readDataFromTeensy(s, line)
        s2 == isMotorsUpdateOK(r.st)
        u == updateData(s2)
    IN  IF ~r.ret
        THEN [r.st EXCEPT !.cycleResult = "malformed"]
        ELSE IF u.ret = "raise"
        THEN [onException(u.st) EXCEPT !.cycleResult = "raised"]
        ELSE IF u.ret = "False"
        THEN [u.st EXCEPT !.cycleResult = "rejected"]
        ELSE [prepareAndSendDataToAirCraft(u.st) EXCEPT !.cycleResult = "telemetry"]

\* ------------------------------------------------------------------- Init
\* The object as __init__ leaves it.  lastTimeSendFullTelemetry is 0.0, the
\* epoch, so the time since it is past every deadline.
Init ==
    /\ pc = "connect"
    /\ ser = FALSE
    /\ dataStringList = << >>
    /\ timeList = [m \in Motors |-> NoneV]
    /\ isMotorUpdatedList = [m \in Motors |-> FALSE]
    /\ throttleInPercentList = [m \in Motors |-> NoneV]
    /\ throttleOutPercentList = [m \in Motors |-> NoneV]
    /\ motorRPMList = [m \in Motors |-> NoneV]
    /\ voltageList = [m \in Motors |-> NoneV]
    /\ totalCurrentList = [m \in Motors |-> NoneV]
    /\ phaseCurrentList = [m \in Motors |-> NoneV]
    /\ mosfetTempList = [m \in Motors |-> NoneV]
    /\ capacitorTempList = [m \in Motors |-> NoneV]
    /\ motorStatusList = [m \in Motors |-> "None"]
    /\ dataToAirCraft = "empty"
    /\ sinceSerialOK = 0
    /\ sinceHeartbeat = 0
    /\ sinceFullTelemetry = maxTimeBetweenTelemetry
    /\ sinceMotorUpdate = [m \in Motors |-> 0]
    /\ timePassed = 0
    /\ emitted = << >>
    /\ cycleResult = "none"
    /\ applied = {}
    /\ sinceFullEmitted = -1
    /\ repeated = FALSE
    /\ serialCalls = << >>

\* ---------------------------------------------------------------- actions
\* run(), first loop: serial.Serial(...) succeeds.
ConnectOK ==
    /\ pc = "connect"
    /\ ser' = TRUE
    /\ pc' = "poll"
    /\ Becomes([Self EXCEPT !.sinceSerialOK = 0, !.emitted = << >>,
                             !.cycleResult = "none"])

\* ConnectFail with the loop left once the deadline has passed.
ConnectFail_GivesUp ==
    /\ pc = "connect"
    /\ UNCHANGED ser
    /\ LET s == [Self EXCEPT !.emitted = << >>, !.cycleResult = "connectFailed"]
       IN  IF s.sinceSerialOK >= maxTimeNoResponseSerial
           THEN pc' = "exited" /\ Becomes(sendCommunicationFailed(s))
           ELSE pc' = pc /\ Becomes(s)

\* run(), first loop: serial.Serial(...) raises.  (serialFailCount, which
\* the code increments here and never reads, is left out.)
ConnectFail ==
    /\ pc = "connect"
    /\ UNCHANGED <<pc, ser>>
    /\ LET s == [Self EXCEPT !.emitted = << >>, !.cycleResult = "connectFailed"]
       IN  IF s.sinceSerialOK >= maxTimeNoResponseSerial
           THEN Becomes(Elapse(sendCommunicationFailed(s), connectRetrySleep))
           ELSE Becomes(s)

\* A tick goes by while the program waits in serial.Serial(...) or in
\* readline(), which was opened without a timeout.
Tick ==
    /\ pc \in {"connect", "readline"}
    /\ UNCHANGED <<pc, ser>>
    /\ Becomes([Elapse(Self, 1) EXCEPT !.cycleResult = "none"])

\* run(), second loop, up to the write of readDataFromTeensy: the write
\* succeeds and the program waits in readline().
PollWriteOK ==
    /\ pc = "poll"
    /\ pc' = "readline"
    /\ UNCHANGED ser
    /\ Becomes([Self EXCEPT !.timePassed = 0, !.emitted = << >>,
                             !.cycleResult = "none",
                             !.serialCalls = << <<"reset_input_buffer", << >> >>,
                                                <<"write", bytesToSendToTeensy>> >>])

\* run(), second loop, after getDataCallback has returned:
\* time.sleep(REQUEST_DATA_EVERY_N_SECONDS - timePassed).  A negative
\* argument makes time.sleep raise ValueError; nothing in run() catches it,
\* and the except branch of the module's main block runs (the same test as
\* the one of getDataCallback) before the process ends.
\* [pc |-> where run() is afterwards, st |-> the object].
sleepRemainder(s) ==
    IF REQUEST_DATA_EVERY_N_SECONDS - s.timePassed >= 0
    THEN [pc |-> "poll", st |-> Elapse(s, REQUEST_DATA_EVERY_N_SECONDS - s.timePassed)]
    ELSE [pc |-> "exited", st |-> onException(s)]

\* ... reset_input_buffer raises, or the argument of the write raises, or
\* the write raises: the except branch runs, then the sleep.  (The
\* argument of the write is str.encode of a value that is already encoded;
\* an interpreter that keeps str and bytes apart raises TypeError there in
\* every cycle, before write is called.)
PollWriteFail ==
    /\ pc = "poll"
    /\ UNCHANGED ser
    /\ \E raisedIn \in {"reset_input_buffer", "encode", "write"} :
         LET s == [Self EXCEPT
                     !.timePassed = 0,
                     !.emitted = << >>,
                     !.serialCalls =
                        IF raisedIn = "write"
                        THEN << <<"reset_input_buffer", << >> >>,
                                <<"write", bytesToSendToTeensy>> >>
                        ELSE << <<"reset_input_buffer", << >> >> >>]
             r == sleepRemainder([onException(s) EXCEPT !.cycleResult = "writeFailed"])
         IN  pc' = r.pc /\ Becomes(r.st)

\* readline() returns a line; the rest of getDataCallback runs, then the
\* sleep.
ReadLine ==
    /\ pc = "readline"
    /\ UNCHANGED ser
    /\ \E line \in Lines :
         LET s == [Self EXCEPT !.serialCalls = Append(@, <<"readline", << >> >>)]
             r == sleepRemainder(getDataCallback(s, line))
         IN  pc' = r.pc /\ Becomes(r.st)

\* readline() raises, or the bytes read are not UTF-8: the except branch
\* runs, then the sleep.
ReadFail ==
    /\ pc = "readline"
    /\ UNCHANGED ser
    /\ LET s == [Self EXCEPT !.serialCalls = Append(@, <<"readline", << >> >>)]
           r == sleepRemainder([onException(s) EXCEPT !.cycleResult = "readFailed"])
       IN  pc' = r.pc /\ Becomes(r.st)

Next ==
    \/ ConnectOK
    \/ ConnectFail
    \/ Tick
    \/ PollWriteOK
    \/ PollWriteFail
    \/ ReadLine
    \/ ReadFail

Spec == Init /\ [][Next]_vars

\* ------------------------------------------------- updateData on its own
\* SpecFrames calls updateData directly on the constructed object, as a
\* unit test would, with 11-field lines from a wider set than Spec's: RPM
\* values on and around both limits, indices and flags that are not
\* integers, nan, and text.  Motor 0 gets every RPM value, the other
\* motors one updated and one not-updated frame.  Between two calls time
\* may pass.
RpmFields == {I(349), I(350), I(10000), I(10001), H(699), H(20001)}

FrameLines ==
    { Frame(I(0), I(u), r, I(1)) : u \in {0, 1}, r \in RpmFields }
    \cup { Frame(I(i), I(1), I(350), I(1)) : i \in Motors }
    \cup { Frame(I(i), I(0), I(349), I(1)) : i \in Motors }
    \cup { Frame(I(-1), I(1), I(350), I(1)),
           Frame(I(totalNumMotors), I(1), I(350), I(1)),
           Frame(H(-3), I(1), I(350), I(1)),
           Frame(H(1), I(1), I(350), I(1)),
           Frame(H(-1), I(1), I(350), I(1)),
           Frame(NaN, I(1), I(350), I(1)),
           Frame(I(0), NaN, I(350), I(1)),
           Frame(I(0), H(1), I(349), I(1)),
           Frame(I(0), I(2), I(349), I(1)),
           Frame(I(0), I(1), Txt, I(1)),
           Frame(Txt, I(1), I(350), I(1)) }

UpdateDataCall ==
    /\ UNCHANGED <<pc, ser>>
    /\ \E line \in FrameLines :
         LET u == updateData([Self EXCEPT !.dataStringList = line])
         IN  Becomes([u.st EXCEPT
                        !.cycleResult = CASE u.ret = "True" -> "applied"
                                          [] u.ret = "False" -> "rejected"
                                          [] OTHER -> "raised",
                        !.repeated = /\ u.ret = "True"
                                     /\ cycleResult = "applied"
                                     /\ line = dataStringList])

Wait ==
    /\ UNCHANGED <<pc, ser>>
    /\ Becomes([Elapse(Self, maxTimeNoUpdate) EXCEPT !.cycleResult = "none"])

NextFrames ==
    \/ UpdateDataCall
    \/ Wait

SpecFrames == Init /\ [][NextFrames]_vars

\* ================================================================ claims
Has(seq, x) == \E k \in 1 .. Len(seq) : seq[k] = x

Count(seq, x) == Cardinality({ k \in 1 .. Len(seq) : seq[k] = x })

AllReported == \A m \in Motors : motorStatusList[m] # "None"

Registry ==
    << timeList, isMotorUpdatedList, throttleInPercentList,
       throttleOutPercentList, motorRPMList, voltageList, totalCurrentList,
       phaseCurrentList, mosfetTempList, capacitorTempList, motorStatusList,
       sinceMotorUpdate >>

\* Everything the object holds about motor m.
Entry(m) ==
    << timeList[m], isMotorUpdatedList[m], throttleInPercentList[m],
       throttleOutPercentList[m], motorRPMList[m], voltageList[m],
       totalCurrentList[m], phaseCurrentList[m], mosfetTempList[m],
       capacitorTempList[m], motorStatusList[m], sinceMotorUpdate[m] >>

\* C1: when an iteration of the poll loop has finished its getDataCallback,
\* it has printed at most one emission (one full object, one status-only
\* batch or one error object), so never an error object together with
\* telemetry.
C1_OneEmissionPerCycle == pc = "poll" => Len(emitted) <= 1

\* C2: a cycle that reaches the telemetry step with every motor reported,
\* at a time when the full-telemetry deadline has passed since
\* lastTimeSendFullTelemetry, prints the full object.
C2_FullWhenDue ==
    [][ ( /\ pc = "readline"
          /\ pc' = "poll"
          /\ cycleResult' = "telemetry"
          /\ AllReported'
          /\ sinceFullTelemetry >= maxTimeBetweenTelemetry )
        => Has(emitted', "full") ]_vars

\* C3: the poll loop never stops: run() is never left.
C3_LoopNeverStops == pc # "exited"

\* C4: the program never waits in readline() for longer than serialTimeout.
C4_ReadBounded == pc = "readline" => timePassed <= serialTimeout

\* C5: a cycle whose line is malformed (wrong field count, or a field that
\* is not a number) prints nothing when the last heartbeat is younger than
\* maxTimeNoHeartbeat, and prints the error object when it is older.
C5_MalformedEscalates ==
    [][ ( /\ pc = "readline"
          /\ pc' = "poll"
          /\ cycleResult' \in {"malformed", "raised"} )
        => /\ sinceHeartbeat < maxTimeNoHeartbeat => emitted' = << >>
           /\ sinceHeartbeat > maxTimeNoHeartbeat => Has(emitted', "error") ]_vars

\* C6: in a cycle whose line has 11 numeric fields, exactly one error
\* object is printed if, when the staleness check runs, some motor has its
\* updated flag false and a last update at least maxTimeNoUpdate old; and
\* none is printed otherwise.
C6_StaleMotorReported ==
    [][ ( pc = "readline" /\ cycleResult' \in {"telemetry", "rejected"} )
        => Count(emitted', "error") =
             IF \E m \in Motors :
                  /\ isMotorUpdatedList[m] = FALSE
                  /\ sinceMotorUpdate[m] >= maxTimeNoUpdate
             THEN 1 ELSE 0 ]_vars

\* A cycle reached the telemetry step and printed the error object because
\* of a stale motor while another motor is current.
C6_Witness ==
    /\ cycleResult = "telemetry"
    /\ Has(emitted, "error")
    /\ \E m \in Motors : isMotorUpdatedList[m] /\ sinceMotorUpdate[m] < maxTimeNoUpdate
    /\ \E m \in Motors : ~isMotorUpdatedList[m] /\ sinceMotorUpdate[m] >= maxTimeNoUpdate

\* C7: while some motor's status is still None, no iteration prints a full
\* object or a status-only batch.
C7_NothingUntilAllReported ==
    ~AllReported => ~Has(emitted, "full") /\ ~Has(emitted, "status")

\* A cycle went through the telemetry step with a motor still unreported.
C7_Witness ==
    /\ pc = "poll"
    /\ cycleResult = "telemetry"
    /\ ~AllReported
    /\ \E m \in Motors : motorStatusList[m] # "None"

\* C8: every motor has a status exactly when updateData has applied a
\* frame to every motor, whatever the frames' updated values, and once
\* every motor has a status that remains so.
C8_AllMotorsReported ==
    /\ (AllReported <=> applied = Motors)
    /\ [][ /\ AllReported' <=> applied' = Motors
           /\ AllReported => AllReported' ]_vars

\* Every motor has reported, one of them only ever with updated = 0 and now
\* stale, and the last cycle failed in the transport.
C8_Witness ==
    /\ AllReported
    /\ cycleResult = "readFailed"
    /\ Has(emitted, "error")
    /\ \E m \in Motors : ~isMotorUpdatedList[m] /\ sinceMotorUpdate[m] >= maxTimeNoUpdate

\* C9: the status updateData stores for the motor of an applied frame is
\* "down" exactly when the frame's updated flag is true and its RPM is
\* below 350 or above 10000, and "normal" otherwise.
C9_StatusFromRpm ==
    cycleResult = "applied" =>
        LET d == dataStringList
            twiceRpm == IF d[6][1] = "i" THEN 2 * d[6][2] ELSE d[6][2]
        IN  motorStatusList[IntOf(d[1])] =
                IF IntOf(d[2]) # 0 /\ (twiceRpm < 2 * 350 \/ twiceRpm > 2 * 10000)
                THEN "down" ELSE "normal"

\* An updated frame with the RPM on a limit was applied: the motor is normal.
C9_Witness ==
    /\ cycleResult = "applied"
    /\ IntOf(dataStringList[2]) # 0
    /\ dataStringList[6] \in {I(350), I(10000)}
    /\ motorStatusList[IntOf(dataStringList[1])] = "normal"

\* C10: a call of updateData with 11 numeric fields whose motor index is
\* below 0 or at least totalNumMotors returns False and leaves every list
\* of the registry, and every motor's last-update time, as it was.
C10_OutOfRangeRejected ==
    [][ ( /\ cycleResult' # "none"
          /\ \A k \in 1 .. Len(dataStringList') : IsFloat(dataStringList'[k])
          /\ IntOK(dataStringList'[1])
          /\ IntOf(dataStringList'[1]) \notin Motors )
        => cycleResult' = "rejected" /\ UNCHANGED Registry ]_vars

\* A frame for motor -1 was rejected by an object that holds data.
C10_Witness ==
    /\ cycleResult = "rejected"
    /\ IntOf(dataStringList[1]) = -1
    /\ \E m \in Motors : motorStatusList[m] # "None"

\* C11: a call of updateData with 11 numeric fields, an index i in
\* 0 .. totalNumMotors - 1 and an updated field that int() accepts changes
\* nothing that the object holds about any other motor j # i, and resets
\* motor i's last-update time only when the updated field is true.
C11_OnlyThatMotor ==
    [][ ( /\ cycleResult' # "none"
          /\ \A k \in 1 .. Len(dataStringList') : IsFloat(dataStringList'[k])
          /\ IntOK(dataStringList'[1])
          /\ IntOK(dataStringList'[2])
          /\ IntOf(dataStringList'[1]) \in Motors )
        => LET i == IntOf(dataStringList'[1])
           IN  /\ cycleResult' = "applied"
               /\ \A j \in Motors \ {i} : Entry(j)' = Entry(j)
               /\ IntOf(dataStringList'[2]) = 0
                     => sinceMotorUpdate'[i] = sinceMotorUpdate[i] ]_vars

\* A frame for motor 0 was applied while motor 1 holds other data.
C11_Witness ==
    /\ cycleResult = "applied"
    /\ IntOf(dataStringList[1]) = 0
    /\ motorStatusList[1] # "None"
    /\ motorRPMList[1] # motorRPMList[0]
    /\ motorRPMList[0] = dataStringList[6]

\* C12: an iteration whose line has a field count other than 11, or has
\* 11 fields of which one is not the text of a number, changes no list of
\* the registry (no metric, updated flag or status), and every motor's
\* last-update time is as old as before plus the time the iteration slept.
C12_FailedDecodeChangesNothing ==
    [][ ( /\ pc = "readline"
          /\ cycleResult' \notin {"none", "readFailed"}
          /\ \/ Len(dataStringList') # 11
             \/ \E k \in 1 .. Len(dataStringList') : dataStringList'[k][1] = "txt" )
        => LET slept == IF pc' = "poll"
                        THEN REQUEST_DATA_EVERY_N_SECONDS - timePassed ELSE 0
           IN  /\ UNCHANGED << timeList, isMotorUpdatedList, throttleInPercentList,
                               throttleOutPercentList, motorRPMList, voltageList,
                               totalCurrentList, phaseCurrentList, mosfetTempList,
                               capacitorTempList, motorStatusList >>
               /\ sinceMotorUpdate' =
                     [m \in Motors |-> Sat(sinceMotorUpdate[m], slept, maxTimeNoUpdate)]
               /\ applied' = applied ]_vars

\* An iteration has read an 11-field line with a text field for motor 0,
\* whose RPM differs from the stored one and whose last update is not new.
C12_Witness ==
    /\ cycleResult = "raised"
    /\ \E k \in 1 .. Len(dataStringList) : dataStringList[k][1] = "txt"
    /\ motorStatusList[0] # "None"
    /\ motorRPMList[0] # dataStringList[6]
    /\ sinceMotorUpdate[0] > REQUEST_DATA_EVERY_N_SECONDS

\* C13: while run() is in its first loop a further attempt to open the port
\* is always possible, and every step taken there stays in that loop or
\* enters the poll loop, the latter exactly when the port was opened; a
\* failed attempt stays in the loop and prints the error object exactly
\* when maxTimeNoResponseSerial or more has passed since construction, and
\* nothing else prints it there.
C13_StartupRetries ==
    /\ [](pc = "connect" => ~ser /\ ENABLED ConnectFail /\ ENABLED ConnectOK)
    /\ [][ pc = "connect"
           => /\ pc' \in {"connect", "poll"}
              /\ pc' = "poll" <=> ser'
              /\ Has(emitted', "error") => sinceSerialOK >= maxTimeNoResponseSerial
              /\ cycleResult' = "connectFailed"
                    => /\ pc' = "connect"
                       /\ Has(emitted', "error")
                             <=> sinceSerialOK >= maxTimeNoResponseSerial ]_vars

\* An attempt has failed after the deadline, and the error object is out.
C13_Witness ==
    /\ pc = "connect"
    /\ cycleResult = "connectFailed"
    /\ sinceSerialOK >= maxTimeNoResponseSerial
    /\ emitted = <<"error">>

\* C14: when updateData has applied a line and is called again with the
\* same line, the second call leaves every motor's status, stored metrics
\* and updated flag as the first call left them.
C14_SameFrameTwice ==
    [][ ( /\ cycleResult = "applied"
          /\ cycleResult' = "applied"
          /\ dataStringList' = dataStringList )
        => UNCHANGED << timeList, isMotorUpdatedList, throttleInPercentList,
                        throttleOutPercentList, motorRPMList, voltageList,
                        totalCurrentList, phaseCurrentList, mosfetTempList,
                        capacitorTempList, motorStatusList >> ]_vars

\* The same line was applied twice in a row, to a motor that is down.
C14_Witness ==
    /\ repeated
    /\ cycleResult = "applied"
    /\ motorStatusList[IntOf(dataStringList[1])] = "down"

\* C15: an iteration whose frame is applied and sets motor i's updated
\* flag, while no other motor is stale, prints no error object.
C15_CheckAfterApply ==
    [][ ( /\ pc = "readline"
          /\ pc' = "poll"
          /\ cycleResult' = "telemetry"
          /\ IntOf(dataStringList'[2]) # 0
          /\ \A j \in Motors \ {IntOf(dataStringList'[1])} :
                isMotorUpdatedList[j] \/ sinceMotorUpdate[j] < maxTimeNoUpdate )
        => ~Has(emitted', "error") ]_vars

\* C16: an iteration of the poll loop restarts the time since the last
\* heartbeat when its line has 11 fields that are all the text of a number,
\* and otherwise (another field count, a text field, a failed write or
\* read) only lets it grow by the time the iteration slept.
C16_HeartbeatOnDecodedOnly ==
    [][ ( /\ pc \in {"poll", "readline"}
          /\ pc' = "poll" )
        => LET slept == IF pc = "poll" THEN REQUEST_DATA_EVERY_N_SECONDS
                        ELSE REQUEST_DATA_EVERY_N_SECONDS - timePassed
               d == dataStringList'
               decoded == /\ cycleResult' \notin {"writeFailed", "readFailed"}
                          /\ Len(d) = 11
                          /\ \A k \in 1 .. Len(d) : d[k][1] # "txt"
           IN  sinceHeartbeat' =
                  IF decoded THEN slept
                  ELSE Sat(sinceHeartbeat, slept, maxTimeNoHeartbeat + 1) ]_vars

\* C17: an iteration of the poll loop in which the write or the read
\* raises prints the error object exactly when more than maxTimeNoHeartbeat
\* has passed since the last heartbeat and prints nothing otherwise, changes
\* no list of the registry and no motor's last-update time, and run() goes
\* on to the next iteration.
C17_TransportFailure ==
    [][ ( /\ pc \in {"poll", "readline"}
          /\ cycleResult' \in {"writeFailed", "readFailed"} )
        => /\ emitted' = IF sinceHeartbeat > maxTimeNoHeartbeat
                         THEN <<"error">> ELSE << >>
           /\ UNCHANGED << timeList, isMotorUpdatedList, throttleInPercentList,
                           throttleOutPercentList, motorRPMList, voltageList,
                           totalCurrentList, phaseCurrentList, mosfetTempList,
                           capacitorTempList, motorStatusList >>
           /\ \A m \in Motors : sinceMotorUpdate'[m] >= sinceMotorUpdate[m]
           /\ pc' = "poll" ]_vars

\* C18: between the steps of run(), for every motor: its status is None
\* exactly when updateData has never applied a frame to it, and then its
\* metrics are all None and its updated flag False; otherwise its metrics
\* are all set and its status is "down" when the stored updated flag is
\* true and the stored RPM is below 350 or above 10000, "normal" when not.
\* When a full object was printed, every motor has a status and metrics.
C18_StatusMatchesStored ==
    LET Metrics(m) ==
            { throttleInPercentList[m], throttleOutPercentList[m],
              motorRPMList[m], voltageList[m], totalCurrentList[m],
              phaseCurrentList[m], mosfetTempList[m], capacitorTempList[m] }
        twiceRpm(m) == IF motorRPMList[m][1] = "i"
                       THEN 2 * motorRPMList[m][2] ELSE motorRPMList[m][2]
    IN  /\ \A m \in Motors :
             /\ motorStatusList[m] = "None" <=> m \notin applied
             /\ m \notin applied
                   => Metrics(m) = {NoneV} /\ ~isMotorUpdatedList[m]
             /\ m \in applied
                   => /\ NoneV \notin Metrics(m)
                      /\ motorStatusList[m] =
                            IF /\ isMotorUpdatedList[m]
                               /\ \/ twiceRpm(m) < 2 * 350
                                  \/ twiceRpm(m) > 2 * 10000
                            THEN "down" ELSE "normal"
        /\ Has(emitted, "full")
              => \A m \in Motors :
                   motorStatusList[m] # "None" /\ NoneV \notin Metrics(m)

\* A full object is out while one motor is down and another, whose frame
\* had a low RPM without the updated flag, is normal.
C18_Witness ==
    /\ pc = "poll"
    /\ Has(emitted, "full")
    /\ \E m \in Motors : motorStatusList[m] = "down"
    /\ \E m \in Motors :
         /\ ~isMotorUpdatedList[m]
         /\ motorRPMList[m] = I(349)
         /\ motorStatusList[m] = "normal"

\* C19: a full object is printed only when no full object was printed
\* before or maxTimeBetweenTelemetry or more has passed since the last one
\* was, whatever else was printed in between; an iteration prints at most
\* one.
C19_FullRateLimited ==
    [][ Has(emitted', "full") /\ emitted' # emitted
        => /\ sinceFullEmitted = -1 \/ sinceFullEmitted >= maxTimeBetweenTelemetry
           /\ Count(emitted', "full") = 1 ]_vars

\* A full object was printed less than maxTimeBetweenTelemetry ago, and the
\* iteration that has just ended printed the status-only batch instead.
C19_Witness ==
    /\ pc = "poll"
    /\ cycleResult = "telemetry"
    /\ emitted = <<"status">>
    /\ sinceFullEmitted \in 0 .. (maxTimeBetweenTelemetry - 1)

\* C20: a call of updateData with 11 numeric fields of which the first is
\* a number with a fractional part applies the frame to no motor and
\* leaves every list of the registry, and every motor's last-update time,
\* as it was.
C20_FractionalIndexRejected ==
    [][ ( /\ cycleResult' # "none"
          /\ \A k \in 1 .. Len(dataStringList') : IsFloat(dataStringList'[k])
          /\ dataStringList'[1][1] = "h" )
        => cycleResult' # "applied" /\ UNCHANGED Registry ]_vars

\* C21: the calls an iteration of the poll loop makes on the port are, in
\* this order, reset_input_buffer, write and readline: when the iteration
\* has ended it has made exactly one write, of totalNumMotors characters
\* '0' and after a reset_input_buffer, and at most one readline, after the
\* write and never when the write failed; while it waits in readline it
\* has made the reset_input_buffer and the write.
C21_TransportOrder ==
    LET c == serialCalls
        At(method) == { k \in 1 .. Len(c) : c[k][1] = method }
    IN  /\ pc = "readline"
              => Len(c) = 2 /\ At("reset_input_buffer") = {1} /\ At("write") = {2}
        /\ (pc \in {"poll", "exited"} /\ cycleResult \notin {"none", "connectFailed"})
              => /\ Cardinality(At("write")) = 1
                 /\ Cardinality(At("readline")) <= 1
                 /\ \A w \in At("write") :
                       /\ c[w][2] = [j \in 1 .. totalNumMotors |-> "0"]
                       /\ \E r \in At("reset_input_buffer") : r < w
                 /\ \A k \in At("readline") : \E w \in At("write") : w < k
                 /\ cycleResult = "writeFailed" => At("readline") = {}

====
